---- MODULE Spec2Model ----
(***************************************************************************)
(* BeatDriver: the audio analysis script (audio_analysis.py) that turns an *)
(* audio file into a per-video-frame feature table (CSV), modelled as a    *)
(* state machine of one script run, with the arithmetic of the frame grid  *)
(* (IEEE-754 double precision) and of the feature engine (exact rationals, *)
(* and doubles for the band weighting) computed as the code computes it;   *)
(* the script run again after a failure; the standalone variant            *)
(* (audio_to_blender_csv.py); and the Blender operators (operators.py)     *)
(* that run the script as a child process.                                 *)
(***************************************************************************)
EXTENDS Integers, Sequences, FiniteSets, TLC

(***************************************************************************)
(* Bounds of the model.                                                    *)
(***************************************************************************)
\* analysis frames a modelled input may produce (1 + N \div hop_length)
MaxFrames == 6
\* largest magnitude of a spectrogram bin of a modelled signal
MaxMag == 1
\* period of the amplitude envelope of a modelled signal
EnvLen == 2
\* consecutive runs of the script
MaxRuns == 2

(***************************************************************************)
(* Program constants.                                                      *)
(***************************************************************************)
N_FFT == 2048
DefaultFps == 24
\* significand width of a Python float (IEEE-754 binary64)
MantBits == 53

(***************************************************************************)
(* IEEE-754 double arithmetic on positive values.  A float is a record     *)
(* [m, e]: m is the 53-bit significand, most significant bit first (always *)
(* 1), and the value is m * 2^(e - 52).  Zero is FZero.  Every operation   *)
(* rounds to nearest, ties to even, as Python's float / and * do.          *)
(***************************************************************************)
FZero == [m |-> <<>>, e |-> 0]

RECURSIVE Pow2(_)
Pow2(n) == IF n = 0 THEN 1 ELSE 2 * Pow2(n - 1)

\* the w-bit binary numeral of v, most significant bit first
ToBits(v, w) == [i \in 1..w |-> (v \div Pow2(w - i)) % 2]

\* the value of bits[lo..hi]
RECURSIVE FromBits(_, _, _)
FromBits(bits, lo, hi) ==
    IF lo > hi THEN 0
    ELSE IF lo = hi THEN bits[lo]
    ELSE LET mid == (lo + hi) \div 2
         IN  FromBits(bits, lo, mid) * Pow2(hi - mid) + FromBits(bits, mid + 1, hi)

\* number of bits of v >= 1
BitLen(v) == CHOOSE k \in 1..30 : Pow2(k - 1) <= v /\ v < Pow2(k)

\* largest e >= 0 with b * 2^e <= a   (a >= b > 0)
RECURSIVE ExpUp(_, _)
ExpUp(a, b) == IF 2 * b <= a THEN 1 + ExpUp(a, 2 * b) ELSE 0

\* smallest j >= 0 with a * 2^j >= b  (a > 0)
RECURSIVE ExpDown(_, _)
ExpDown(a, b) == IF a >= b THEN 0 ELSE 1 + ExpDown(2 * a, b)

\* the arithmetic works on limbs of LimbBits bits
LimbBits == 13
LimbBase == Pow2(LimbBits)
\* limbs below the leading bit of a significand: 1 + 4 * 13 = 53
MantLimbs == (MantBits - 1) \div LimbBits

\* n further quotient limbs of r / b (r < b), and the remainder left
RECURSIVE DivLimbs(_, _, _, _)
DivLimbs(r, b, n, acc) ==
    IF n = 0 THEN <<acc, r>>
    ELSE DivLimbs((r * LimbBase) % b, b, n - 1,
                  acc \o ToBits((r * LimbBase) \div b, LimbBits))

\* bits + 1; a carry out of the top bit lengthens the numeral
IncBits(bits) ==
    IF \A i \in 1..Len(bits) : bits[i] = 1
    THEN <<1>> \o [i \in 1..Len(bits) |-> 0]
    ELSE LET j == CHOOSE i \in 1..Len(bits) :
                      bits[i] = 0 /\ \A k \in (i + 1)..Len(bits) : bits[k] = 1
         IN  [i \in 1..Len(bits) |->
                 IF i < j THEN bits[i] ELSE IF i = j THEN 1 ELSE 0]

\* Round the exact value bits * 2^(e - (Len(bits) - 1)) (+ something below
\* the last bit when sticky) to MantBits bits, nearest, ties to even.
\* bits[1] = 1 and Len(bits) > MantBits.
RoundNearestEven(bits, e, sticky) ==
    LET m     == SubSeq(bits, 1, MantBits)
        guard == bits[MantBits + 1]
        rest  == sticky \/ \E i \in (MantBits + 2)..Len(bits) : bits[i] = 1
        up    == guard = 1 /\ (rest \/ m[MantBits] = 1)
        m2    == IF up THEN IncBits(m) ELSE m
    IN  IF Len(m2) > MantBits
        THEN [m |-> SubSeq(m2, 1, MantBits), e |-> e + 1]
        ELSE [m |-> m2, e |-> e]

\* float(a) / b for integers a > 0, b > 0 (both exactly representable)
FloatDiv(a, b) ==
    LET up   == IF a >= b THEN ExpUp(a, b) ELSE 0
        down == IF a >= b THEN 0 ELSE ExpDown(a, b)
        num  == a * Pow2(down)
        den  == b * Pow2(up)
        q    == DivLimbs(num - den, den, MantLimbs + 1, <<1>>)
    IN  RoundNearestEven(q[1], up - down, q[2] # 0)

\* the bits of m * c (c > 0), limb by limb from the least significant one;
\* limb i > 0 is bits 2 + 13 (i - 1) .. 1 + 13 i of m, limb 0 its leading bit
RECURSIVE MulLimbs(_, _, _, _, _)
MulLimbs(m, i, c, carry, acc) ==
    IF i = 0
    THEN LET head == m[1] * c + carry
         IN  ToBits(head, BitLen(head)) \o acc
    ELSE LET limb == FromBits(m, 2 + LimbBits * (i - 1), 1 + LimbBits * i)
             v    == limb * c + carry
         IN  MulLimbs(m, i - 1, c, v \div LimbBase,
                      ToBits(v % LimbBase, LimbBits) \o acc)

\* x * c for a float x >= 0 and an integer c > 0
FloatMulInt(x, c) ==
    IF x = FZero THEN FZero
    ELSE LET p == MulLimbs(x.m, MantLimbs, c, 0, <<>>) \o <<0>>
         IN  RoundNearestEven(p, x.e + (Len(p) - 1 - MantBits), FALSE)

\* int(x) for a float x >= 0 (below 2^31)
FloatToInt(x) ==
    IF x = FZero \/ x.e < 0 THEN 0 ELSE FromBits(x.m, 1, x.e + 1)

FOne == [m |-> [i \in 1..MantBits |-> IF i = 1 THEN 1 ELSE 0], e |-> 0]

\* a significand as limbs, most significant first: its leading bit, then
\* MantLimbs limbs of LimbBits bits
Limbs(m) ==
    <<m[1]>> \o [i \in 1..MantLimbs |->
                    FromBits(m, 2 + LimbBits * (i - 1), 1 + LimbBits * i)]

\* a < b for two numbers of as many limbs
BigLess(a, b) ==
    \E i \in 1..Len(a) : a[i] < b[i] /\ \A j \in 1..(i - 1) : a[j] = b[j]

\* 2 * a; the leading limb takes the carry
BigDouble(a) ==
    <<2 * a[1] + (2 * a[2]) \div LimbBase>>
        \o [i \in 1..(Len(a) - 1) |->
                ((2 * a[i + 1]) % LimbBase)
                    + (IF i + 1 < Len(a) THEN (2 * a[i + 2]) \div LimbBase ELSE 0)]

\* a - b for a >= b; limb i borrows when the limbs below it fall short
BigSub(a, b) ==
    LET borrow(i) ==
            IF \E j \in (i + 1)..Len(a) :
                   a[j] < b[j] /\ \A k \in (i + 1)..(j - 1) : a[k] = b[k]
            THEN 1 ELSE 0
    IN  <<a[1] - b[1] - borrow(1)>>
            \o [i \in 1..(Len(a) - 1) |->
                    (a[i + 1] - b[i + 1] - borrow(i + 1) + LimbBase) % LimbBase]

\* n further quotient bits of r / b (r < b), and the remainder left
RECURSIVE DivBits(_, _, _, _)
DivBits(r, b, n, acc) ==
    IF n = 0 THEN <<acc, r>>
    ELSE LET r2 == BigDouble(r)
         IN  IF BigLess(r2, b)
             THEN DivBits(r2, b, n - 1, acc \o <<0>>)
             ELSE DivBits(BigSub(r2, b), b, n - 1, acc \o <<1>>)

\* the quotient bits, LimbBits at a time
RECURSIVE DivChunks(_, _, _, _)
DivChunks(r, b, chunks, acc) ==
    IF chunks = 0 THEN <<acc, r>>
    ELSE LET q == DivBits(r, b, LimbBits, acc)
         IN  DivChunks(q[2], b, chunks - 1, q[1])

\* x / y for floats x >= 0, y > 0
FloatQuot(x, y) ==
    IF x = FZero THEN FZero
    ELSE LET a     == Limbs(x.m)
             b     == Limbs(y.m)
             small == BigLess(a, b)
             r     == BigSub(IF small THEN BigDouble(a) ELSE a, b)
             q     == DivChunks(r, b, MantLimbs + 1, <<1>>)
         IN  RoundNearestEven(q[1], x.e - y.e - (IF small THEN 1 ELSE 0),
                              \E i \in 1..Len(q[2]) : q[2][i] # 0)

\* column k of the long multiplication: the sum of a[i] * b[j], i + j = k
RECURSIVE ColumnSum(_, _, _, _)
ColumnSum(a, b, k, i) ==
    IF i > Len(a) THEN 0
    ELSE (IF k - i \in 1..Len(b) THEN a[i] * b[k - i] ELSE 0)
            + ColumnSum(a, b, k, i + 1)

\* the bits of a * b, column by column from the least significant one
RECURSIVE MulColumns(_, _, _, _, _)
MulColumns(a, b, k, carry, acc) ==
    LET v == ColumnSum(a, b, k, 1) + carry
    IN  IF k = 2 THEN ToBits(v, BitLen(v)) \o acc
        ELSE MulColumns(a, b, k - 1, v \div LimbBase,
                        ToBits(v % LimbBase, LimbBits) \o acc)

\* x * y for floats x, y >= 0
FloatMul(x, y) ==
    IF x = FZero \/ y = FZero THEN FZero
    ELSE LET p == MulColumns(Limbs(x.m), Limbs(y.m), 2 * (MantLimbs + 1), 0, <<>>)
         IN  RoundNearestEven(p, x.e + y.e + Len(p) - (2 * MantBits - 1), FALSE)

\* x < y for floats x, y >= 0
FloatLess(x, y) ==
    IF y = FZero THEN FALSE
    ELSE IF x = FZero THEN TRUE
    ELSE x.e < y.e \/ (x.e = y.e /\ BigLess(Limbs(x.m), Limbs(y.m)))

Abs(i) == IF i < 0 THEN -i ELSE i
Sign(i) == IF i < 0 THEN -1 ELSE 1

(***************************************************************************)
(* Frame-grid planning, audio_to_csv lines 86-88.                          *)
(***************************************************************************)
\* librosa.get_duration(y=y, sr=sr) = float(len(y)) / sr
Duration(n, rate) == FloatDiv(n, rate)

\* a frame count rounded up to the next whole frame instead of truncated
TotalFramesCeiling(n, rate, fps) == (n * fps + rate - 1) \div rate

\* total_frames = int(duration * fps); int() truncates towards zero
TotalFrames(n, rate, fps) ==
    IF fps = 0 THEN 0
    ELSE Sign(fps) * FloatToInt(FloatMulInt(Duration(n, rate), Abs(fps)))

\* Python's round(a / b) for a, b > 0: nearest integer, ties to the even one
RoundHalfEven(a, b) ==
    LET q == a \div b
        r == a % b
    IN  IF 2 * r > b THEN q + 1
        ELSE IF 2 * r < b THEN q
        ELSE IF q % 2 = 0 THEN q ELSE q + 1

\* a hop length rounded to nearest instead of truncated
HopLengthRounded(rate, fps) == Sign(fps) * RoundHalfEven(rate, Abs(fps))

\* hop_length = int(sr / fps), fps # 0
HopLength(rate, fps) == Sign(fps) * FloatToInt(FloatDiv(rate, Abs(fps)))

(***************************************************************************)
(* Exact rationals <<n, d>> for the feature values.  d > 0 for a number;   *)
(* <<0, 0>> is NaN and <<1, 0>> is +inf, as numpy's float division gives.  *)
(***************************************************************************)
RECURSIVE GCD(_, _)
GCD(a, b) == IF b = 0 THEN a ELSE GCD(b, a % b)

FReduce(x) ==
    IF x[2] = 0 THEN IF x[1] = 0 THEN <<0, 0>> ELSE <<1, 0>>
    ELSE IF x[1] = 0 THEN <<0, 1>>
    ELSE LET g == GCD(x[1], x[2]) IN <<x[1] \div g, x[2] \div g>>

FInt(i) == <<i, 1>>
FIsNum(x) == x[2] > 0
FLeq(x, y) == x[1] * y[2] <= y[1] * x[2]
FMul(x, y) == FReduce(<<x[1] * y[1], x[2] * y[2]>>)
FDiv(x, y) == FReduce(<<x[1] * y[2], x[2] * y[1]>>)
FMax2(x, y) == IF FLeq(x, y) THEN y ELSE x

\* np.max over a non-empty track
RECURSIVE FMaxFrom(_, _, _)
FMaxFrom(xs, i, best) ==
    IF i > Len(xs) THEN best ELSE FMaxFrom(xs, i + 1, FMax2(best, xs[i]))

FMax(xs) == FMaxFrom(xs, 2, xs[1])

Min2(a, b) == IF a <= b THEN a ELSE b

(***************************************************************************)
(* The inputs: sample buffers.  A buffer has a sample rate, a length in    *)
(* samples, and a signal: a tone in one frequency bin whose amplitude      *)
(* follows a periodic envelope, over a constant background.                *)
(***************************************************************************)
SampleRates == {8000, 44100}
Lengths == {900, 1800, 4000}
ToneBins == {1, 512, 1024}
Signals == [bin : ToneBins, env : [1..EnvLen -> 0..MaxMag], bg : 0..1]
Files == [sr : SampleRates, n : Lengths, sig : Signals]
\* the signals a script run of the model loads: a steady tone, or silence
RunSignals ==
    {s \in Signals : s.bin = 1 /\ s.bg = 0 /\ \A i \in 1..EnvLen : s.env[i] = s.env[1]}
RunFiles == {f \in Files : f.sig \in RunSignals}
NoFile == [sr |-> 0, n |-> 0, sig |-> <<>>]
FrameRates == {-1, 0, 24, 49, 50000}
\* sys.argv[3]: text that int() parses to val, or that it rejects, or absent
FpsArgs ==
    {[kind |-> "int", val |-> v] : v \in FrameRates}
        \cup {[kind |-> "bad", val |-> 0]}
NoFpsArg == [kind |-> "absent", val |-> 0]

\* envelope value at analysis frame t (1-based)
EnvAt(sig, t) == sig.env[((t - 1) % EnvLen) + 1]

Silent(sig) == sig.bg = 0 /\ \A i \in 1..EnvLen : sig.env[i] = 0

(***************************************************************************)
(* Spectral-feature engine, audio_to_csv lines 91-146.                     *)
(***************************************************************************)
\* frames of librosa.stft / feature.rms / onset_strength (center=True)
StftFrames(n, hop) == 1 + (n \div hop)

\* S = np.abs(librosa.stft(...)): magnitude of bin k at frame t
Mag(sig, k, t) == sig.bg + (IF k = sig.bin THEN EnvAt(sig, t) ELSE 0)

Bins == 0..(N_FFT \div 2)

band_ranges ==
    << <<20, 60>>, <<60, 120>>, <<120, 250>>, <<250, 2000>>,
       <<2000, 4000>>, <<4000, 6000>>, <<6000, 12000>> >>

NumBands == Len(band_ranges)

\* band_weights, in tenths
band_weights == <<12, 11, 10, 9, 8, 7, 5, 3>>

headers ==
    <<"loudness", "sub_bass", "bass", "low_mid", "mid",
      "high_mid", "presence", "brilliance", "pulse">>

\* a band closed at its upper edge: low <= f <= high
InBandClosed(k, rate, b) ==
    /\ band_ranges[b][1] * N_FFT <= k * rate
    /\ k * rate <= band_ranges[b][2] * N_FFT

\* (freqs >= band[0]) & (freqs < band[1]), freqs[k] = k * sr / n_fft
InBand(k, rate, b) ==
    /\ band_ranges[b][1] * N_FFT <= k * rate
    /\ k * rate < band_ranges[b][2] * N_FFT

\* idx = np.where(...)[0], per sample rate and band
BandIdx ==
    [rate \in SampleRates |->
        [b \in 1..NumBands |-> {k \in Bins : InBand(k, rate, b)}]]

\* S[idx, t].sum(): the sum of Mag(sig, k, t) over k in idx
MagSum(sig, idx, t) ==
    Cardinality(idx) * sig.bg + (IF sig.bin \in idx THEN EnvAt(sig, t) ELSE 0)

\* the mean taken without the check for an empty band: 0 / 0
BandEnergyUnguarded(sig, idx, frames) ==
    [t \in 1..frames |-> FReduce(<<MagSum(sig, idx, t), Cardinality(idx)>>)]

\* band_energy = S[idx, :].mean(axis=0), or np.zeros for an empty band
BandEnergy(sig, idx, frames) ==
    IF Cardinality(idx) > 0
    THEN [t \in 1..frames |-> FReduce(<<MagSum(sig, idx, t), Cardinality(idx)>>)]
    ELSE [t \in 1..frames |-> FInt(0)]

\* a track times a weight w given in tenths
Weighted(track, w) == [t \in 1..Len(track) |-> FMul(track[t], <<w, 10>>)]

\* band_data *= band_weights[:7, np.newaxis]
ApplyWeight(track, b) == Weighted(track, band_weights[b])

\* the division by the peak without the replacement of a zero peak
PeakNormalizeUnguarded(track) ==
    [t \in 1..Len(track) |-> FDiv(track[t], FMax(track))]

\* the weighted track left unscaled
PeakNormalizeSkipped(track) == track

\* max_values[max_values == 0] = 1.0; band_data / max_values
PeakNormalize(track) ==
    LET mx  == FMax(track)
        div == IF mx[1] = 0 /\ mx[2] > 0 THEN FInt(1) ELSE mx
    IN  [t \in 1..Len(track) |-> FDiv(track[t], div)]

\* if np.max(rms) > 0: rms /= np.max(rms)
RmsNormalize(track) ==
    LET mx == FMax(track)
    IN  IF FIsNum(mx) /\ mx[1] > 0
        THEN [t \in 1..Len(track) |-> FDiv(track[t], mx)]
        ELSE track

Median3(a, b, c) ==
    IF FLeq(a, b)
    THEN IF FLeq(b, c) THEN b ELSE FMax2(a, c)
    ELSE IF FLeq(a, c) THEN a ELSE FMax2(b, c)

\* scipy.signal.medfilt, kernel 3 along time, zero-padded at both ends
MedFilt3(track) ==
    [t \in 1..Len(track) |->
        Median3(IF t = 1 THEN FInt(0) ELSE track[t - 1],
                track[t],
                IF t = Len(track) THEN FInt(0) ELSE track[t + 1])]

BandTrack(sig, rate, b, frames) ==
    MedFilt3(PeakNormalize(ApplyWeight(BandEnergy(sig, BandIdx[rate][b], frames), b)))

\* librosa.feature.rms: the frame's amplitude (tone plus background)
RmsRaw(sig, frames) == [t \in 1..frames |-> FInt(sig.bg + EnvAt(sig, t))]

Loudness(sig, frames) == MedFilt3(RmsNormalize(RmsRaw(sig, frames)))

\* frames where onset_strength is positive: the spectrum rose since the
\* frame before; onset_detect picks its onsets among them
RisingFrames(sig, frames) ==
    {t \in 2..frames : EnvAt(sig, t) > EnvAt(sig, t - 1)}

\* pulse = np.zeros_like(rms); pulse[onsets] = 1
Pulse(onsets, frames) ==
    [t \in 1..frames |-> IF t \in onsets THEN FInt(1) ELSE FInt(0)]

\* all_data = np.vstack([rms, band_data, pulse]).T
AllData(sig, rate, frames, onsets) ==
    LET loud  == Loudness(sig, frames)
        bands == [b \in 1..NumBands |-> BandTrack(sig, rate, b, frames)]
        pulse == Pulse(onsets, frames)
    IN  [t \in 1..frames |->
            <<loud[t]>> \o [b \in 1..NumBands |-> bands[b][t]] \o <<pulse[t]>>]

(***************************************************************************)
(* The band columns in the arithmetic the code runs in: numpy's float64    *)
(* with a rounding after the mean, after the product with the weight and   *)
(* after the division by the peak (lines 107-124).                         *)
(***************************************************************************)
\* the values of a track, each once, in the order they first occur
RECURSIVE DistinctFrom(_, _, _)
DistinctFrom(track, t, acc) ==
    IF t > Len(track) THEN acc
    ELSE DistinctFrom(track, t + 1,
                      IF \E i \in 1..Len(acc) : acc[i] = track[t] THEN acc
                      ELSE Append(acc, track[t]))

Distinct(track) == DistinctFrom(track, 1, <<>>)

\* the track whose element is results[i] where the given track holds
\* values[i]: an elementwise operation, computed once for each value
Spread(track, values, results) ==
    [t \in 1..Len(track) |->
        results[CHOOSE i \in 1..Len(values) : values[i] = track[t]]] \o <<>>

\* the float of a ratio of two naturals
FloatRatio(n, d) == IF n = 0 THEN FZero ELSE FloatDiv(n, d)

\* band_energy = S[idx, :].mean(axis=0), or np.zeros for an empty band
BandEnergyFloat(sig, idx, frames) ==
    LET sums == [t \in 1..frames |-> MagSum(sig, idx, t)]
    IN  IF Cardinality(idx) > 0
        THEN LET d == Distinct(sums)
             IN  Spread(sums, d,
                        [i \in 1..Len(d) |-> FloatRatio(d[i], Cardinality(idx))] \o <<>>)
        ELSE [t \in 1..frames |-> FZero]

\* band_data *= w for the float64 the literal of w (in tenths) denotes
WeightedFloat(track, w) ==
    LET wf == FloatDiv(w, 10)
        d  == Distinct(track)
    IN  Spread(track, d, [i \in 1..Len(d) |-> FloatMul(d[i], wf)] \o <<>>)

\* np.max over a non-empty track
RECURSIVE FloatMaxFrom(_, _, _)
FloatMaxFrom(xs, i, best) ==
    IF i > Len(xs) THEN best
    ELSE FloatMaxFrom(xs, i + 1, IF FloatLess(best, xs[i]) THEN xs[i] ELSE best)

FloatMax(xs) == FloatMaxFrom(xs, 2, xs[1])

\* the weighted float track left unscaled
PeakNormalizeFloatSkipped(track) == track

\* max_values[max_values == 0] = 1.0; band_data / max_values
PeakNormalizeFloat(track) ==
    LET mx  == FloatMax(track)
        div == IF mx = FZero THEN FOne ELSE mx
        d   == Distinct(track)
    IN  Spread(track, d, [i \in 1..Len(d) |-> FloatQuot(d[i], div)] \o <<>>)

FloatMedian3(a, b, c) ==
    LET leq(x, y) == ~FloatLess(y, x)
        max2(x, y) == IF leq(x, y) THEN y ELSE x
    IN  IF leq(a, b)
        THEN IF leq(b, c) THEN b ELSE max2(a, c)
        ELSE IF leq(a, c) THEN a ELSE max2(b, c)

\* scipy.signal.medfilt, kernel 3 along time, zero-padded at both ends
MedFilt3Float(track) ==
    [t \in 1..Len(track) |->
        FloatMedian3(IF t = 1 THEN FZero ELSE track[t - 1],
                     track[t],
                     IF t = Len(track) THEN FZero ELSE track[t + 1])]

\* the column of band b under the weight w (in tenths), in floats
BandTrackFloat(sig, rate, b, frames, w) ==
    MedFilt3Float(PeakNormalizeFloat(
        WeightedFloat(BandEnergyFloat(sig, BandIdx[rate][b], frames), w)))

\* the column of band b under the weight w (in tenths), were the arithmetic
\* exact
BandTrackExact(sig, rate, b, frames, w) ==
    MedFilt3(PeakNormalize(Weighted(BandEnergy(sig, BandIdx[rate][b], frames), w)))

(***************************************************************************)
(* The standalone variant, audio_to_blender_csv.audio_to_csv lines 30-54:  *)
(* the same pipeline without the checks for an empty band and a zero peak. *)
(***************************************************************************)
\* band_energy = S[idx, :].mean(axis=0): the mean over no bin is 0 / 0
StandaloneBandEnergy(sig, idx, frames) ==
    [t \in 1..frames |-> FReduce(<<MagSum(sig, idx, t), Cardinality(idx)>>)]

\* band_data / np.max(band_data, axis=1, keepdims=True)
StandaloneNormalize(track) ==
    [t \in 1..Len(track) |-> FDiv(track[t], FMax(track))]

StandaloneBandTrack(sig, rate, b, frames) ==
    MedFilt3(StandaloneNormalize(
        ApplyWeight(StandaloneBandEnergy(sig, BandIdx[rate][b], frames), b)))

\* rms /= np.max(rms); rms = medfilt(rms, kernel_size=3)
StandaloneLoudness(sig, frames) ==
    MedFilt3(StandaloneNormalize(RmsRaw(sig, frames)))

\* all_data = np.vstack([rms, band_data, pulse]).T
StandaloneData(sig, rate, frames, onsets) ==
    LET loud  == StandaloneLoudness(sig, frames)
        bands == [b \in 1..NumBands |-> StandaloneBandTrack(sig, rate, b, frames)]
        pulse == Pulse(onsets, frames)
    IN  [t \in 1..frames |->
            <<loud[t]>> \o [b \in 1..NumBands |-> bands[b][t]] \o <<pulse[t]>>]

\* the table written whole, without the slice
SliceRowsAll(data, total) == data

\* all_data[:total_frames]
SliceRows(data, total) ==
    IF total >= 0 THEN SubSeq(data, 1, Min2(total, Len(data)))
    ELSE SubSeq(data, 1, Len(data) + total)

(***************************************************************************)
(* One run of the script: python audio_analysis.py <in> [out] [fps].       *)
(***************************************************************************)
VARIABLES
    argc,           \* len(sys.argv)
    fpsArg,         \* sys.argv[3]
    inputExists,    \* the input path names a file
    outDirExists,   \* the directory of the output path exists
    outFile,        \* the file at the output path: [exists, lines]
    localFfmpeg,    \* FFMPEG_DIR holds a local ffmpeg
    pc,             \* position of the script
    fps,            \* the frame rate passed to audio_to_csv
    file,           \* y, sr as loaded (NoFile before)
    total_frames,
    hop_length,
    all_data,
    exc,            \* the exception caught at line 169 ("none" if none)
    exitStatus,     \* the status the process exited with, -1 while it runs
    setupStep,      \* the branch setup_environment took in this run
    run,            \* the number of this run of the script
    prevExc,        \* the exception caught in the run before ("none" if none)
    scene,          \* bpy.context.scene: the beatdriver_* properties, frame_end
    saved,          \* bpy.data.filepath is not empty
    node_group,     \* bpy.data.node_groups holds the song's BeatDriver group
    objects,        \* the names of the BeatDriver objects in bpy.data.objects
    building,       \* Build_BeatDriver.execute is waiting for the script
    result,         \* what the last operator call returned
    completed       \* a build has run all its steps since the last selection

\* the history of script runs
runs == <<run, prevExc>>

\* the state of the Blender add-on
addon == <<scene, saved, node_group, objects, building, result, completed>>

\* the state of one run of the script
script == <<argc, fpsArg, inputExists, outDirExists, outFile, localFfmpeg, pc,
            fps, file, total_frames, hop_length, all_data, exc, exitStatus,
            setupStep>>

vars == <<script, runs, addon>>

OldLines == << <<"previous content">> >>
Absent == [exists |-> FALSE, lines |-> <<>>]
OldFile == [exists |-> TRUE, lines |-> OldLines]

\* no object name: beatdriver_object_name = ""
NoName == <<>>

\* the scene as the add-on's registration leaves it: the defaults of the
\* beatdriver_* properties, and Blender's own for frame_end and render.fps
NewScene ==
    [beatdriver_audio_path  |-> "",
     beatdriver_fps         |-> 30,
     beatdriver_built       |-> FALSE,
     beatdriver_sync        |-> FALSE,
     beatdriver_in_vse      |-> FALSE,
     beatdriver_end_frame   |-> 0,
     beatdriver_object_name |-> NoName,
     beatdriver_last_error  |-> "",
     frame_end              |-> 250,
     render_fps             |-> 24,
     sync_mode              |-> "NONE"]

NoResult == [op |-> "none", ret |-> "NONE"]

\* no add-on is at work
NoAddon ==
    /\ scene = NewScene
    /\ saved = FALSE
    /\ node_group = FALSE
    /\ objects = {}
    /\ building = FALSE
    /\ result = NoResult
    /\ completed = FALSE

\* the first run of the script
FirstRun == run = 1 /\ prevExc = "none"

Init ==
    /\ argc \in 1..4
    /\ fpsArg \in (IF argc > 3 THEN FpsArgs ELSE {NoFpsArg})
    /\ inputExists \in BOOLEAN
    /\ outDirExists \in (IF argc > 2 THEN BOOLEAN ELSE {TRUE})
    /\ outFile \in (IF outDirExists THEN {Absent, OldFile} ELSE {Absent})
    /\ localFfmpeg = FALSE
    /\ pc = "setup"
    /\ fps = DefaultFps
    /\ file = NoFile
    /\ total_frames = 0
    /\ hop_length = 0
    /\ all_data = <<>>
    /\ exc = "none"
    /\ exitStatus = -1
    /\ setupStep = "pending"
    /\ FirstRun
    /\ NoAddon

\* sys.exit(status), or the interpreter ending on an uncaught exception (1)
Exit(status) == pc' = "done" /\ exitStatus' = status

Raise(e) == pc' = "except" /\ exc' = e

\* setup_environment() and lines 184-185
SetupEnvironment ==
    /\ pc = "setup"
    /\ UNCHANGED <<runs, addon>>
    /\ \E depsOk \in BOOLEAN, systemFfmpeg \in BOOLEAN, download \in BOOLEAN :
        IF ~depsOk
        THEN Exit(1) /\ UNCHANGED localFfmpeg /\ setupStep' = "deps_failed"
        ELSE /\ pc' = "args"
             /\ setupStep' = IF systemFfmpeg THEN "system"
                             ELSE IF localFfmpeg THEN "local" ELSE "download"
             /\ localFfmpeg' = IF systemFfmpeg \/ localFfmpeg THEN localFfmpeg
                               ELSE download
             /\ UNCHANGED exitStatus
    /\ UNCHANGED <<argc, fpsArg, inputExists, outDirExists, outFile, fps, file,
                   total_frames, hop_length, all_data, exc>>

\* lines 187-198
ParseArgs ==
    /\ pc = "args"
    /\ UNCHANGED <<setupStep, runs, addon>>
    /\ IF argc < 2 \/ (argc > 3 /\ fpsArg.kind = "bad")
       THEN Exit(1) /\ UNCHANGED fps
       ELSE /\ pc' = "load"
            /\ fps' = IF argc > 3 THEN fpsArg.val ELSE DefaultFps
            /\ UNCHANGED exitStatus
    /\ UNCHANGED <<argc, fpsArg, inputExists, outDirExists, outFile,
                   localFfmpeg, file, total_frames, hop_length, all_data, exc>>

\* the files of the model whose analysis stays within MaxFrames frames
Loadable(f, rate) ==
    IF rate = 0 THEN TRUE
    ELSE IF HopLength(f.sr, rate) < 1 THEN TRUE
    ELSE StftFrames(f.n, HopLength(f.sr, rate)) <= MaxFrames

\* the output file created before the input is loaded
LoadFromAfterOpen(files) ==
    /\ pc = "load"
    /\ UNCHANGED <<setupStep, runs, addon>>
    /\ outFile' = [exists |-> TRUE, lines |-> <<>>]
    /\ IF ~inputExists
       THEN Raise("missing") /\ UNCHANGED file
       ELSE \E f \in files :
                 Loadable(f, fps) /\ file' = f /\ pc' = "plan" /\ UNCHANGED exc
    /\ UNCHANGED <<argc, fpsArg, inputExists, outDirExists,
                   localFfmpeg, fps, total_frames, hop_length, all_data,
                   exitStatus>>

\* line 83: y, sr = librosa.load(file_path, sr=None)
LoadFrom(files) ==
    /\ pc = "load"
    /\ UNCHANGED <<setupStep, runs, addon>>
    /\ IF ~inputExists
       THEN Raise("missing") /\ UNCHANGED file
       ELSE \/ \E e \in {"decode_ffmpeg", "decode_other"} :
                 Raise(e) /\ UNCHANGED file
            \/ \E f \in files :
                 Loadable(f, fps) /\ file' = f /\ pc' = "plan" /\ UNCHANGED exc
    /\ UNCHANGED <<argc, fpsArg, inputExists, outDirExists, outFile,
                   localFfmpeg, fps, total_frames, hop_length, all_data,
                   exitStatus>>

Load == LoadFrom(RunFiles)

\* audio_to_csv called on any sample buffer of the model
LoadAny == LoadFrom(Files)

\* lines 86-88
Plan ==
    /\ pc = "plan"
    /\ UNCHANGED <<setupStep, runs, addon>>
    /\ total_frames' = TotalFrames(file.n, file.sr, fps)
    /\ IF fps = 0
       THEN Raise("zerodiv") /\ UNCHANGED hop_length
       ELSE /\ hop_length' = HopLength(file.sr, fps)
            /\ pc' = "features"
            /\ UNCHANGED exc
    /\ UNCHANGED <<argc, fpsArg, inputExists, outDirExists, outFile,
                   localFfmpeg, fps, file, all_data, exitStatus>>

\* lines 91-146
Features ==
    /\ pc = "features"
    /\ UNCHANGED <<setupStep, runs, addon>>
    /\ IF hop_length < 1
       THEN Raise("param") /\ UNCHANGED all_data
       ELSE LET frames == StftFrames(file.n, hop_length) IN
            \E onsets \in SUBSET RisingFrames(file.sig, frames) :
                /\ all_data' = AllData(file.sig, file.sr, frames, onsets)
                /\ pc' = "resolve"
                /\ UNCHANGED exc
    /\ UNCHANGED <<argc, fpsArg, inputExists, outDirExists, outFile,
                   localFfmpeg, fps, file, total_frames, hop_length,
                   exitStatus>>

\* lines 149-159
ResolveOutput ==
    /\ pc = "resolve"
    /\ UNCHANGED <<setupStep, runs, addon>>
    /\ IF argc > 2 /\ ~outDirExists
       THEN \/ outDirExists' = TRUE /\ pc' = "open" /\ UNCHANGED exc
            \/ Raise("io") /\ UNCHANGED outDirExists
       ELSE pc' = "open" /\ UNCHANGED <<outDirExists, exc>>
    /\ UNCHANGED <<argc, fpsArg, inputExists, outFile, localFfmpeg, fps, file,
                   total_frames, hop_length, all_data, exitStatus>>

\* line 162: open(final_output_path, "w") truncates the file
OpenOutput ==
    /\ pc = "open"
    /\ UNCHANGED <<setupStep, runs, addon>>
    /\ \/ outFile' = [exists |-> TRUE, lines |-> <<>>]
          /\ pc' = "header" /\ UNCHANGED exc
       \/ Raise("io") /\ UNCHANGED outFile
    /\ UNCHANGED <<argc, fpsArg, inputExists, outDirExists, localFfmpeg, fps,
                   file, total_frames, hop_length, all_data, exitStatus>>

\* line 164: writer.writerow(headers)
WriteHeader ==
    /\ pc = "header"
    /\ UNCHANGED <<setupStep, runs, addon>>
    /\ \/ outFile' = [outFile EXCEPT !.lines = <<headers>>]
          /\ pc' = "rows" /\ UNCHANGED exc
       \/ Raise("io") /\ UNCHANGED outFile
    /\ UNCHANGED <<argc, fpsArg, inputExists, outDirExists, localFfmpeg, fps,
                   file, total_frames, hop_length, all_data, exitStatus>>

\* line 165: writer.writerows(all_data[:total_frames]), row by row; the
\* file holds the lines that reached it, so a write that fails when the
\* buffer is flushed or the file closed is a failure at the first row lost
WriteRow ==
    /\ pc = "rows"
    /\ UNCHANGED <<setupStep, runs, addon>>
    /\ LET rows == SliceRows(all_data, total_frames)
           done == Len(outFile.lines) - 1
       IN  IF done < Len(rows)
           THEN \/ outFile' = [outFile EXCEPT
                                 !.lines = Append(@, rows[done + 1])]
                   /\ UNCHANGED <<pc, exc>>
                \/ Raise("io") /\ UNCHANGED outFile
           ELSE pc' = "return" /\ UNCHANGED <<outFile, exc>>
    /\ UNCHANGED <<argc, fpsArg, inputExists, outDirExists, localFfmpeg, fps,
                   file, total_frames, hop_length, all_data, exitStatus>>

\* line 167 and lines 200-202: the path is returned, the script ends
ReturnPath ==
    /\ pc = "return"
    /\ UNCHANGED <<setupStep, runs, addon>>
    /\ Exit(0)
    /\ UNCHANGED <<argc, fpsArg, inputExists, outDirExists, outFile,
                   localFfmpeg, fps, file, total_frames, hop_length, all_data,
                   exc>>

MentionsFfmpeg(e) == e = "decode_ffmpeg"

\* the handler returning a path, so that the script reports success
HandleExceptionReturnsPath ==
    /\ pc = "except"
    /\ UNCHANGED <<setupStep, runs, addon>>
    /\ localFfmpeg' = IF MentionsFfmpeg(exc) THEN FALSE ELSE localFfmpeg
    /\ Exit(0)
    /\ UNCHANGED <<argc, fpsArg, inputExists, outDirExists, outFile, fps, file,
                   total_frames, hop_length, all_data, exc>>

\* the handler leaving the local FFmpeg in place whatever the message says
HandleExceptionKeepsFfmpeg ==
    /\ pc = "except"
    /\ UNCHANGED <<setupStep, runs, addon>>
    /\ Exit(1)
    /\ UNCHANGED <<argc, fpsArg, inputExists, outDirExists, outFile, fps, file,
                   total_frames, hop_length, all_data, exc, localFfmpeg>>

\* lines 169-180 and 203-205: None is returned, the script exits with 1
HandleException ==
    /\ pc = "except"
    /\ UNCHANGED <<setupStep, runs, addon>>
    /\ localFfmpeg' = IF MentionsFfmpeg(exc) THEN FALSE ELSE localFfmpeg
    /\ Exit(1)
    /\ UNCHANGED <<argc, fpsArg, inputExists, outDirExists, outFile, fps, file,
                   total_frames, hop_length, all_data, exc>>

Next ==
    \/ SetupEnvironment
    \/ ParseArgs
    \/ Load
    \/ Plan
    \/ Features
    \/ ResolveOutput
    \/ OpenOutput
    \/ WriteHeader
    \/ WriteRow
    \/ ReturnPath
    \/ HandleException

Spec == Init /\ [][Next]_vars

(***************************************************************************)
(* The script run again and again with the same command line: what a run   *)
(* leaves on disk (the output file, the local FFmpeg) is what the next run *)
(* finds.                                                                  *)
(***************************************************************************)
\* python audio_analysis.py ... once more, after the run before has exited
NextRun ==
    /\ pc = "done"
    /\ run < MaxRuns
    /\ run' = run + 1
    /\ prevExc' = exc
    /\ pc' = "setup"
    /\ fps' = DefaultFps
    /\ file' = NoFile
    /\ total_frames' = 0
    /\ hop_length' = 0
    /\ all_data' = <<>>
    /\ exc' = "none"
    /\ exitStatus' = -1
    /\ setupStep' = "pending"
    /\ UNCHANGED <<argc, fpsArg, inputExists, outDirExists, outFile,
                   localFfmpeg, addon>>

NextRuns ==
    \/ SetupEnvironment
    \/ ParseArgs
    \/ Load
    \/ Plan
    \/ Features
    \/ ResolveOutput
    \/ OpenOutput
    \/ WriteHeader
    \/ WriteRow
    \/ ReturnPath
    \/ HandleException
    \/ NextRun

\* the command line names an input file, an output path and a frame rate
InitRuns ==
    /\ Init
    /\ argc = 4
    /\ inputExists
    /\ fpsArg.kind = "int"
    /\ fpsArg.val >= 0

SpecRuns == InitRuns /\ [][NextRuns]_vars

(***************************************************************************)
(* audio_to_csv(file_path, output_path, fps) called on its own, on every   *)
(* sample buffer of the model.                                             *)
(***************************************************************************)
InitCall ==
    /\ argc = 4
    /\ fpsArg \in {a \in FpsArgs : a.kind = "int" /\ a.val > 0}
    /\ inputExists = TRUE
    /\ outDirExists = TRUE
    /\ outFile = Absent
    /\ localFfmpeg = FALSE
    /\ pc = "load"
    /\ fps = fpsArg.val
    /\ file = NoFile
    /\ total_frames = 0
    /\ hop_length = 0
    /\ all_data = <<>>
    /\ exc = "none"
    /\ exitStatus = -1
    /\ setupStep = "pending"
    /\ FirstRun
    /\ NoAddon

NextCall ==
    \/ LoadAny
    \/ Plan
    \/ Features
    \/ ResolveOutput
    \/ OpenOutput
    \/ WriteHeader
    \/ WriteRow
    \/ ReturnPath
    \/ HandleException

SpecCall == InitCall /\ [][NextCall]_vars

(***************************************************************************)
(* audio_to_csv called on the buffers whose band columns exercise the      *)
(* weighting: a tone of amplitude 1 that is on from the start or from the  *)
(* second frame of each period, with and without a background.             *)
(***************************************************************************)
WeightSignals ==
    {s \in Signals : \A i \in 1..EnvLen : s.env[i] = (IF i = 1 THEN s.env[1] ELSE 1)}
WeightFiles == {f \in Files : f.sig \in WeightSignals}
LoadWeighted == LoadFrom(WeightFiles)

NextWeights ==
    \/ LoadWeighted
    \/ Plan
    \/ Features
    \/ ResolveOutput
    \/ OpenOutput
    \/ WriteHeader
    \/ WriteRow
    \/ ReturnPath
    \/ HandleException

SpecWeights == InitCall /\ [][NextWeights]_vars

(***************************************************************************)
(* The Blender add-on (operators.py, __init__.py, ui.py).  An operator's   *)
(* execute runs to its end before the next one starts.  The build runs the *)
(* analysis script as a child process and waits for it: between the launch *)
(* and the end of the build the steps are those of the script.             *)
(***************************************************************************)
\* what the file selector hands over: nothing, a file, a path to no file
AudioPaths == {"", "song.wav", "gone.wav"}

\* os.path.exists(audio_path)
AudioExists(path) == path = "song.wav"

\* frame rates of the scene (beatdriver_fps is limited to 1..240)
AddonFps == {24, 30}

\* empty_obj.name of an object created for the song: empty_name, which
\* Blender makes unique by a numeric suffix, left out here
ObjectName == <<"BeatDriver - song">>

\* the audio files behind the path the add-on hands to the script
AddonFiles == {f \in RunFiles : f.n = 900 /\ ~Silent(f.sig)}

\* librosa.load in a run the add-on started
LoadAudio == LoadFrom(AddonFiles)

Returned(o, r) == [op |-> o, ret |-> r]

\* Select_Audio.execute
Select_Audio ==
    /\ ~building
    /\ \E path \in AudioPaths :
          scene' = [scene EXCEPT !.beatdriver_audio_path = path,
                                 !.beatdriver_built = FALSE,
                                 !.beatdriver_sync = FALSE,
                                 !.beatdriver_in_vse = FALSE,
                                 !.beatdriver_end_frame = 0,
                                 !.beatdriver_object_name = NoName,
                                 !.beatdriver_last_error = "",
                                 !.beatdriver_fps = scene.render_fps]
    /\ result' = Returned("select", "FINISHED")
    /\ completed' = FALSE
    /\ UNCHANGED <<script, runs, saved, node_group, objects, building>>

\* the beatdriver_fps field of the panel, with its update callback
SetFps ==
    /\ ~building
    /\ scene.beatdriver_audio_path # ""
    /\ \E v \in AddonFps :
          scene' = [scene EXCEPT !.beatdriver_fps = v, !.render_fps = v]
    /\ UNCHANGED <<script, runs, saved, node_group, objects, building, result,
                   completed>>

\* Build_BeatDriver._validate_prerequisites
ValidatePrerequisites(sc) ==
    /\ sc.beatdriver_audio_path # ""
    /\ AudioExists(sc.beatdriver_audio_path)
    /\ saved

\* Build_BeatDriver._setup_audio_sequencer; ~ok: the copy of the audio file
\* or the new sound strip raises
SetupAudioSequencer(sc, ok) ==
    LET synced == [sc EXCEPT !.sync_mode = "AUDIO_SYNC",
                             !.beatdriver_sync = TRUE]
    IN  IF ok THEN [synced EXCEPT !.beatdriver_in_vse = TRUE] ELSE synced

\* Build_BeatDriver._create_beatdriver_object
CreateBeatDriverObject(sc) ==
    [sc EXCEPT !.beatdriver_object_name = ObjectName]

\* Build_BeatDriver._configure_timeline; ~readable: open() raises, which is
\* reported as a warning
ConfigureTimeline(sc, csv, readable) ==
    IF readable /\ csv.exists
    THEN [sc EXCEPT !.frame_end = Len(csv.lines),
                    !.beatdriver_end_frame = Len(csv.lines)]
    ELSE sc

\* a build that marks itself built whatever the analysis returned
AfterAnalysisUnchecked(sc, status, csv, readable) ==
    [ConfigureTimeline(sc, csv, readable) EXCEPT
        !.beatdriver_last_error = "", !.beatdriver_built = TRUE]

\* Build_BeatDriver.execute from the check of the analysis on (lines 75-85);
\* subprocess.run(check=True) raises on a non-zero exit status
AfterAnalysis(sc, status, csv, readable) ==
    IF status # 0 THEN sc
    ELSE [ConfigureTimeline(sc, csv, readable) EXCEPT
             !.beatdriver_last_error = "", !.beatdriver_built = TRUE]

\* no script process: its variables hold nothing
NoProcess ==
    /\ argc' = 4
    /\ fpsArg' = NoFpsArg
    /\ inputExists' = TRUE
    /\ outDirExists' = TRUE
    /\ pc' = "done"
    /\ fps' = DefaultFps
    /\ file' = NoFile
    /\ total_frames' = 0
    /\ hop_length' = 0
    /\ all_data' = <<>>
    /\ exc' = "none"
    /\ exitStatus' = -1
    /\ setupStep' = "pending"

\* subprocess.run(["python", script_path, dest_audio_path, csv_path,
\* str(fps)]): the audio file is in the project directory, by the copy
LaunchScript(rate) ==
    /\ argc' = 4
    /\ fpsArg' = [kind |-> "int", val |-> rate]
    /\ inputExists' = TRUE
    /\ outDirExists' = TRUE
    /\ pc' = "setup"
    /\ fps' = DefaultFps
    /\ file' = NoFile
    /\ total_frames' = 0
    /\ hop_length' = 0
    /\ all_data' = <<>>
    /\ exc' = "none"
    /\ exitStatus' = -1
    /\ setupStep' = "pending"

\* Build_BeatDriver.execute up to the launch of the analysis (lines 50-75,
\* 245-270)
Build_BeatDriver ==
    /\ ~building
    /\ UNCHANGED <<outFile, localFfmpeg, runs, saved, completed>>
    /\ IF ~ValidatePrerequisites(scene)
       THEN /\ result' = Returned("build", "CANCELLED")
            /\ UNCHANGED <<scene, node_group, objects, building>>
            /\ NoProcess
       ELSE \/ \* the copy of the audio file or the sound strip raises
               /\ scene' = SetupAudioSequencer(scene, FALSE)
               /\ result' = Returned("build", "ERROR")
               /\ UNCHANGED <<node_group, objects, building>>
               /\ NoProcess
            \/ \* the node group is not there and cannot be loaded
               /\ ~node_group
               /\ scene' = SetupAudioSequencer(scene, TRUE)
               /\ \E ret \in {"CANCELLED", "ERROR"} :
                     result' = Returned("build", ret)
               /\ UNCHANGED <<node_group, objects, building>>
               /\ NoProcess
            \/ \* the object is created, but the script cannot be started
               /\ node_group' = TRUE
               /\ objects' = objects \cup {ObjectName}
               /\ scene' = CreateBeatDriverObject(
                               SetupAudioSequencer(scene, TRUE))
               /\ result' = Returned("build", "CANCELLED")
               /\ UNCHANGED building
               /\ NoProcess
            \/ \* the object is created and the script is started
               /\ node_group' = TRUE
               /\ objects' = objects \cup {ObjectName}
               /\ scene' = CreateBeatDriverObject(
                               SetupAudioSequencer(scene, TRUE))
               /\ building' = TRUE
               /\ LaunchScript(scene.beatdriver_fps)
               /\ UNCHANGED result

\* Build_BeatDriver.execute once the script has exited (lines 75-90, 272-279)
Build_BeatDriver_Finish ==
    /\ building
    /\ pc = "done"
    /\ building' = FALSE
    /\ \E readable \in BOOLEAN :
          scene' = AfterAnalysis(scene, exitStatus, outFile, readable)
    /\ completed' = (completed \/ exitStatus = 0)
    /\ result' = Returned("build", IF exitStatus = 0 THEN "FINISHED"
                                   ELSE "CANCELLED")
    /\ NoProcess
    /\ UNCHANGED <<outFile, localFfmpeg, runs, saved, node_group, objects>>

InitAddon ==
    /\ argc = 4
    /\ fpsArg = NoFpsArg
    /\ inputExists = TRUE
    /\ outDirExists = TRUE
    /\ outFile = Absent
    /\ localFfmpeg = FALSE
    /\ pc = "done"
    /\ fps = DefaultFps
    /\ file = NoFile
    /\ total_frames = 0
    /\ hop_length = 0
    /\ all_data = <<>>
    /\ exc = "none"
    /\ exitStatus = -1
    /\ setupStep = "pending"
    /\ FirstRun
    /\ scene = NewScene
    /\ saved \in BOOLEAN
    /\ node_group = FALSE
    /\ objects = {}
    /\ building = FALSE
    /\ result = NoResult
    /\ completed = FALSE

\* the steps of the script run as the child process of a build
ScriptStep ==
    /\ building
    /\ \/ SetupEnvironment
       \/ ParseArgs
       \/ LoadAudio
       \/ Plan
       \/ Features
       \/ ResolveOutput
       \/ OpenOutput
       \/ WriteHeader
       \/ WriteRow
       \/ ReturnPath
       \/ HandleException

NextAddon ==
    \/ Select_Audio
    \/ SetFps
    \/ Build_BeatDriver
    \/ Build_BeatDriver_Finish
    \/ ScriptStep

SpecAddon == InitAddon /\ [][NextAddon]_vars

(***************************************************************************)
(* Properties.                                                             *)
(***************************************************************************)
Ended == pc = "done"
Succeeded == pc = "done" /\ exitStatus = 0

\* the data rows in the output file (the lines after the header)
RowsWritten == Len(outFile.lines) - 1

\* the output file is as it was before the run
Untouched == outFile \in {Absent, OldFile}

\* the output file holds the header and all total_frames rows
Complete ==
    /\ outFile.exists
    /\ outFile.lines = <<headers>> \o SliceRows(all_data, total_frames)

\* the frame grid has been planned (lines 86-88 have run without raising)
Planned == pc \in {"features", "resolve", "open", "header", "rows", "return"}
              \/ (pc \in {"except", "done"} /\ exc \in {"param", "io"})
              \/ Succeeded

InUnit(x) == x[2] > 0 /\ 0 <= x[1] /\ x[1] <= x[2]
IsZero(x) == x = <<0, 1>>

\* C1 as stated: a successful run writes exactly floor(N * fps / sr) data
\* rows.
C1_RowsAreExactFloor ==
    Succeeded => RowsWritten = (file.n * fps) \div file.sr

\* C1, amended: a successful run writes exactly total_frames data rows, the
\* analysis produces 1 + floor(N / hop_length) frames, which is more than
\* total_frames, and total_frames, computed in double precision as
\* int((N / sr) * fps), is floor(N * fps / sr) or, only when N * fps is a
\* multiple of sr, one less.
C1_RowCount ==
    /\ all_data # <<>> =>
          /\ hop_length >= 1
          /\ Len(all_data) = 1 + (file.n \div hop_length)
          /\ Len(all_data) > total_frames
    /\ Succeeded =>
          LET exact == (file.n * fps) \div file.sr
          IN  /\ RowsWritten = total_frames
              /\ \/ total_frames = exact
                 \/ total_frames = exact - 1 /\ (file.n * fps) % file.sr = 0

\* a successful run whose row count is one less than floor(N * fps / sr),
\* with rows written and analysis frames dropped by the slice
C1_Witness ==
    /\ Succeeded
    /\ RowsWritten >= 1
    /\ RowsWritten = ((file.n * fps) \div file.sr) - 1
    /\ Len(all_data) > RowsWritten

\* C2: after the run has ended, however it ended, the output path holds
\* either what it held before the run or a complete file (the header and
\* all total_frames rows), never a partially written one.
C2_NoPartialOutput == Ended => (Untouched \/ Complete)

\* C3: with an input path that does not exist, no step of the run changes
\* the output file, and the run ends with a non-zero exit status.
C3_MissingInput ==
    [][~inputExists =>
          /\ outFile' = outFile
          /\ (pc' = "done" => exitStatus' # 0)]_vars

\* a run on a missing input has ended with status 1 beside an output file
\* that was there before
C3_Witness ==
    /\ Ended
    /\ ~inputExists
    /\ exc = "missing"
    /\ exitStatus = 1
    /\ outFile = OldFile

\* C5: with a frame rate <= 0 the run fails without writing or changing the
\* output file, and it is rejected before the audio file is loaded.
C5_RejectedBeforeLoad ==
    fps <= 0 =>
        /\ file = NoFile
        /\ Untouched
        /\ Ended => exitStatus = 1

\* C6: the script exits with status 0 exactly when the complete feature
\* track (the header and all total_frames rows) is in the output file;
\* every other way the script ends gives a non-zero status.
C6_ExitStatus ==
    Ended => /\ exitStatus \in {0, 1}
             /\ exitStatus = 0 <=> Complete

\* the script has exited with status 0 after writing rows
C6_Witness == Succeeded /\ Complete /\ RowsWritten >= 2

\* C7: in every row of the table, and so in every row written, loudness
\* and the seven band values are in [0, 1] and pulse is 0 or 1.
C7_ValueBounds ==
    /\ \A t \in 1..Len(all_data) :
          /\ \A j \in 1..(NumBands + 1) : InUnit(all_data[t][j])
          /\ all_data[t][NumBands + 2] \in {FInt(0), FInt(1)}
    /\ pc \in {"rows", "return"} =>
          \A i \in 2..Len(outFile.lines) :
              /\ \A j \in 1..(NumBands + 1) : InUnit(outFile.lines[i][j])
              /\ outFile.lines[i][NumBands + 2] \in {FInt(0), FInt(1)}

\* a written row with a band value strictly between 0 and 1, a band of
\* peak 0 and a pulse
C7_Witness ==
    /\ pc = "return"
    /\ \E i \in 2..Len(outFile.lines) :
          LET row == outFile.lines[i]
          IN  /\ \E j \in 2..(NumBands + 1) : 0 < row[j][1] /\ row[j][1] < row[j][2]
              /\ \E j \in 2..(NumBands + 1) : IsZero(row[j])
              /\ row[NumBands + 2] = FInt(1)

\* C8: a band track whose peak is 0 comes out as all zeros, a loudness
\* track whose peak is 0 comes out as all zeros, and a silent input gives
\* a table whose nine columns are all 0 (numbers, not NaN or inf).
C8_ZeroPeak ==
    all_data # <<>> =>
        LET frames == Len(all_data)
            sig    == file.sig
        IN  /\ \A b \in 1..NumBands :
                  IsZero(FMax(BandEnergy(sig, BandIdx[file.sr][b], frames))) =>
                      \A t \in 1..frames : IsZero(all_data[t][1 + b])
            /\ IsZero(FMax(RmsRaw(sig, frames))) =>
                  \A t \in 1..frames : IsZero(all_data[t][1])
            /\ Silent(sig) =>
                  \A t \in 1..frames : \A j \in 1..(NumBands + 2) :
                      IsZero(all_data[t][j])

\* the table of a silent input has been written: rows, all of them zero
C8_Witness ==
    /\ Succeeded
    /\ Silent(file.sig)
    /\ RowsWritten >= 2
    /\ \A i \in 2..Len(outFile.lines) : \A j \in 1..(NumBands + 2) :
          IsZero(outFile.lines[i][j])

\* C9: a band that contains no frequency bin has the value 0 at every
\* analysis frame; the table has one row per analysis frame and every row
\* has the nine columns, the seven bands among them, all of them numbers.
C9_EmptyBand ==
    all_data # <<>> =>
        /\ Len(all_data) = StftFrames(file.n, hop_length)
        /\ \A t \in 1..Len(all_data) :
              /\ Len(all_data[t]) = Len(headers)
              /\ \A j \in 1..Len(headers) : FIsNum(all_data[t][j])
              /\ \A b \in 1..NumBands :
                    BandIdx[file.sr][b] = {} => IsZero(all_data[t][1 + b])

\* a table of several frames in which a band has no bin and another band
\* is not zero
C9_Witness ==
    /\ Len(all_data) >= 2
    /\ \E b \in 1..NumBands : BandIdx[file.sr][b] = {}
    /\ \E t \in 1..Len(all_data) : \E b \in 1..NumBands :
          ~IsZero(all_data[t][1 + b])

\* C10 as stated: for every accepted frame rate fps > 0 the hop length is
\* round(sr / fps) and at least 1.
C10_HopIsRounded ==
    (Planned /\ fps > 0) =>
        /\ hop_length = RoundHalfEven(file.sr, fps)
        /\ hop_length >= 1

\* C10, amended: for every frame rate fps > 0 the hop length is
\* floor(sr / fps) (int() truncates); it is at least 1 exactly when
\* fps <= sr, and with a hop length of 0 the run fails at the transform,
\* leaving the output file as it was.
C10_HopIsTruncated ==
    (Planned /\ fps > 0) =>
        /\ hop_length = file.sr \div fps
        /\ hop_length >= 1 <=> fps <= file.sr
        /\ hop_length < 1 =>
              /\ pc \in {"features", "except", "done"}
              /\ Untouched
              /\ Ended => exitStatus = 1

\* the hop length of 44100 Hz at 24 fps (1837.5 samples) has been planned
C10_Witness ==
    /\ Planned
    /\ fps = 24
    /\ file.sr = 44100
    /\ hop_length = 1837

\* C11: for a loaded (non-empty, decodable) input with duration * fps < 1
\* at a frame rate fps > 0, total_frames is 0 and nothing in the analysis
\* raises: unless the file system fails the write, the run ends with status
\* 0 and the output file holds the header row and no data row.
C11_EmptyTrack ==
    (file # NoFile /\ fps > 0 /\ file.n * fps < file.sr) =>
        /\ exc \in {"none", "io"}
        /\ pc # "plan" => total_frames = 0 /\ (exc = "none" => hop_length >= 1)
        /\ pc \in {"rows", "return"} => outFile.lines = <<headers>>
        /\ (Ended /\ exc = "none") =>
              /\ exitStatus = 0
              /\ outFile = [exists |-> TRUE, lines |-> <<headers>>]

\* a run on an input shorter than one video frame has exited with status 0,
\* with analysis frames computed and only the header written
C11_Witness ==
    /\ Succeeded
    /\ fps > 0
    /\ file.n >= 1
    /\ file.n * fps < file.sr
    /\ total_frames = 0
    /\ Len(all_data) >= 1
    /\ outFile = [exists |-> TRUE, lines |-> <<headers>>]

\* the physical frequency of bin k, k * sr / 2048, as a rational
BinFrequency(k, rate) == <<k * rate, N_FFT>>

\* the bands that bin k contributes to at the given sample rate
BandsOf(k, rate) == {b \in 1..NumBands : k \in BandIdx[rate][b]}

\* the band columns of the table that are not zero throughout
LiveBands == {b \in 1..NumBands :
                 \E t \in 1..Len(all_data) : ~IsZero(all_data[t][1 + b])}

\* at every sample rate: membership is the half-open interval, a bin is in
\* at most one band, a bin on a shared boundary is in the upper band only,
\* and a bin below 20 Hz or at or above 12000 Hz is in no band
HalfOpenDisjoint ==
    \A rate \in SampleRates : \A k \in Bins :
        LET f == BinFrequency(k, rate)
        IN  /\ \A b \in 1..NumBands :
                  b \in BandsOf(k, rate) <=>
                      /\ FLeq(FInt(band_ranges[b][1]), f)
                      /\ ~FLeq(FInt(band_ranges[b][2]), f)
            /\ Cardinality(BandsOf(k, rate)) <= 1
            /\ \A b \in 1..(NumBands - 1) :
                  k * rate = band_ranges[b][2] * N_FFT
                      => BandsOf(k, rate) = {b + 1}
            /\ (~FLeq(FInt(band_ranges[1][1]), f)
                   \/ FLeq(FInt(band_ranges[NumBands][2]), f))
                  => BandsOf(k, rate) = {}

\* C12: at every sample rate, bin k contributes to band i exactly when
\* low_i <= k * sr / 2048 < high_i; so a bin contributes to at most one
\* band, a bin exactly on a shared boundary contributes only to the upper
\* band, bins below 20 Hz or at or above 12000 Hz contribute to no band,
\* and in the table of a pure tone (no background) only the band column of
\* the tone's bin can be non-zero.
C12_BandMembership ==
    /\ HalfOpenDisjoint
    /\ (all_data # <<>> /\ file.sig.bg = 0) =>
          LiveBands \subseteq BandsOf(file.sig.bin, file.sr)

\* the table of a pure tone at exactly 2000 Hz (bin 512 at 8000 Hz): the
\* high_mid column is live and the mid column, which ends at 2000 Hz, is not
C12_Witness ==
    /\ all_data # <<>>
    /\ file.sr = 8000
    /\ file.sig.bin = 512
    /\ file.sig.bg = 0
    /\ 512 * file.sr = band_ranges[4][2] * N_FFT
    /\ LiveBands = {5}

\* C13: after a Build_BeatDriver.execute that returned FINISHED,
\* scene.frame_end and scene.beatdriver_end_frame equal the number of data
\* rows of the generated CSV.
C13_EndFrameIsRowCount ==
    result = Returned("build", "FINISHED") =>
        /\ scene.frame_end = RowsWritten
        /\ scene.beatdriver_end_frame = RowsWritten

OnsetsOf(data) == {t \in 1..Len(data) : data[t][NumBands + 2] = FInt(1)}

\* C15: on every input, the standalone variant computes the same table as
\* audio_analysis.audio_to_csv (and so writes the same rows), also when a
\* band has no bin, a band's peak is 0 or the loudness peak is 0.
C15_VariantsAgree ==
    all_data # <<>> =>
        StandaloneData(file.sig, file.sr, Len(all_data), OnsetsOf(all_data))
            = all_data

\* C16: in every state the add-on can reach, beatdriver_built is set only
\* if a build has run all its steps since the last Select_Audio.execute,
\* and then beatdriver_sync and beatdriver_in_vse are set and
\* beatdriver_object_name is not empty; and when Select_Audio.execute was the
\* last operator to run and no build is under way, built, sync and in_vse
\* are unset, end_frame is 0 and object_name is empty.
C16_SceneFlags ==
    /\ scene.beatdriver_built =>
          /\ completed
          /\ scene.beatdriver_sync
          /\ scene.beatdriver_in_vse
          /\ scene.beatdriver_object_name # NoName
    /\ (result = Returned("select", "FINISHED") /\ ~building) =>
          /\ ~scene.beatdriver_built
          /\ ~scene.beatdriver_sync
          /\ ~scene.beatdriver_in_vse
          /\ scene.beatdriver_end_frame = 0
          /\ scene.beatdriver_object_name = NoName

\* a built scene whose latest build was cancelled by a failed analysis:
\* the flags are those of the build before
C16_Witness ==
    /\ scene.beatdriver_built
    /\ completed
    /\ result = Returned("build", "CANCELLED")
    /\ exitStatus = -1
    /\ ~building
    /\ outFile.exists
    /\ scene.beatdriver_end_frame # Len(outFile.lines)

\* weight vectors (in tenths) put in the place of band_weights[:7]
OtherWeights == { <<10, 10, 10, 10, 10, 10, 10>>, <<5, 7, 8, 9, 10, 11, 12>> }

\* the float after x > 0
FloatNext(x) ==
    LET m == IncBits(x.m)
    IN  IF Len(m) > MantBits
        THEN [m |-> SubSeq(m, 1, MantBits), e |-> x.e + 1]
        ELSE [m |-> m \o <<>>, e |-> x.e]

\* x and y are at most k floats apart
RECURSIVE WithinUlps(_, _, _)
WithinUlps(x, y, k) ==
    \/ x = y
    \/ /\ k > 0
       /\ x # FZero
       /\ y # FZero
       /\ IF FloatLess(x, y) THEN WithinUlps(FloatNext(x), y, k - 1)
                             ELSE WithinUlps(x, FloatNext(y), k - 1)

\* the band columns of the table under the weights w, in floats
BandColumns(w) ==
    [b \in 1..NumBands |->
        BandTrackFloat(file.sig, file.sr, b, Len(all_data), w[b]) \o <<>>] \o <<>>

====
